---------------------------- MODULE Spec2Model ----------------------------
(***************************************************************************)
(* TXmlConfig: an XML document flattened into a map from textual path to   *)
(* textual value (mapFile), and the typed accessors over that map          *)
(* (canonize, exists, get, set, childrenOf, dump, load).                   *)
(*                                                                         *)
(* Text (std::string) is a sequence of one-character strings, so that      *)
(* searching, erasing, formatting and ordering are computed character by   *)
(* character as the code does.  std::map<std::string,std::string> is a     *)
(* function whose DOMAIN is the set of keys; its iteration order is the    *)
(* byte-wise lexicographic order of the keys.                              *)
(*                                                                         *)
(* The static scratch stream TXmlConfig::sstr is emptied and cleared at     *)
(* the start of every use (str(""), clear()), so it carries nothing from   *)
(* one call to the next and is not a state variable.                       *)
(***************************************************************************)
EXTENDS Integers, Sequences, FiniteSets, TLC

VARIABLES
    mNodes,         \* std::map<std::string,std::string> mNodes
    mErrorParsing,  \* bool mErrorParsing
    xmldoc,         \* history: the document mapped by the latest load, NoDoc if none
    nsets,          \* history: number of set calls since the latest load
    call,           \* history: the latest load or set call and its arguments; for
                    \* a load, gone says that a key of the map before the call
                    \* is no key after it
    ret             \* the reader call that has just returned, with its arguments
                    \* and result; None between calls

vars == <<mNodes, mErrorParsing, xmldoc, nsets, call, ret>>

(***************************************************************************)
(* Bounds of the model.                                                    *)
(***************************************************************************)
\* set calls between two loads
MaxSets == 1
\* same-named siblings in the generated sibling documents
MaxSiblings == 3
\* length of the texts given to canonize in SpecCanon
MaxPathLen == 6

(***************************************************************************)
(* Characters and text.                                                    *)
(***************************************************************************)
\* the characters std::isspace accepts (C locale) that the model uses
Whitespace == {" ", "\n", "\t"}

\* byte value of a character: the order of std::string's operator<
Code(c) ==
    CASE c = "\t" -> 9   [] c = "\n" -> 10  [] c = " " -> 32
      [] c = "-" -> 45   [] c = "." -> 46   [] c = "/" -> 47
      [] c = "0" -> 48   [] c = "1" -> 49   [] c = "2" -> 50
      [] c = "3" -> 51   [] c = "4" -> 52   [] c = "5" -> 53
      [] c = "6" -> 54   [] c = "7" -> 55   [] c = "8" -> 56
      [] c = "9" -> 57   [] c = ":" -> 58   [] c = "<" -> 60
      [] c = "=" -> 61   [] c = ">" -> 62
      [] c = "A" -> 65   [] c = "B" -> 66   [] c = "D" -> 68
      [] c = "E" -> 69   [] c = "I" -> 73   [] c = "N" -> 78
      [] c = "P" -> 80   [] c = "[" -> 91   [] c = "]" -> 93
      [] c = "a" -> 97   [] c = "b" -> 98   [] c = "c" -> 99
      [] c = "d" -> 100  [] c = "e" -> 101  [] c = "f" -> 102
      [] c = "l" -> 108  [] c = "n" -> 110  [] c = "r" -> 114
      [] c = "s" -> 115  [] c = "t" -> 116  [] c = "u" -> 117
      [] c = "v" -> 118  [] c = "x" -> 120
      [] OTHER -> 127

Min(a, b) == IF a < b THEN a ELSE b

\* std::string operator< : lexicographic on the bytes, a proper prefix first
StrLess(a, b) ==
    \E i \in 1..(Min(Len(a), Len(b)) + 1) :
        /\ \A j \in 1..(i - 1) : a[j] = b[j]
        /\ \/ i > Len(a) /\ i <= Len(b)
           \/ i <= Len(a) /\ i <= Len(b) /\ Code(a[i]) < Code(b[i])

\* std::string::find(pat): first position (1-based) of pat in s, 0 for npos
Find(s, pat) ==
    LET hits == {i \in 1..(Len(s) - Len(pat) + 1) :
                    SubSeq(s, i, i + Len(pat) - 1) = pat}
    IN  IF hits = {} THEN 0 ELSE CHOOSE i \in hits : \A j \in hits : i <= j

\* std::string::erase(pos, len) with a 1-based pos
Erase(s, pos, len) == SubSeq(s, 1, pos - 1) \o SubSeq(s, pos + len, Len(s))

\* decimal digits of a natural number, as "%zu" and operator<< print it
RECURSIVE Digits(_)
Digits(n) ==
    LET d == <<"0", "1", "2", "3", "4", "5", "6", "7", "8", "9">>
    IN  IF n < 10 THEN <<d[n + 1]>> ELSE Digits(n \div 10) \o <<d[(n % 10) + 1]>>

\* TString::Format("[%zu]", index)
FormatIndex(index) == <<"[">> \o Digits(index) \o <<"]">>

(***************************************************************************)
(* Static members.                                                         *)
(***************************************************************************)
valDNE == <<"<", "D", "N", "E", "/", ">">>
pathDelim == <<".">>
attrDelim == <<":">>

(***************************************************************************)
(* The map.                                                                *)
(***************************************************************************)
EmptyMap == [k \in {} |-> <<>>]

\* mNodes[k] = v : insert or overwrite
Put(m, k, v) == [x \in (DOMAIN m) \cup {k} |-> IF x = k THEN v ELSE m[x]]

\* mNodes.count(k)
Count(m, k) == IF k \in DOMAIN m THEN 1 ELSE 0

\* the keys in the order a range-for over the map visits them
SortedKeys(m) ==
    [i \in 1..Cardinality(DOMAIN m) |->
        CHOOSE k \in DOMAIN m :
            Cardinality({x \in DOMAIN m : StrLess(x, k)}) = i - 1]

(***************************************************************************)
(* canonize                                                                *)
(***************************************************************************)
\* path.erase(remove_if(isspace))
StripSpace(s) == SelectSeq(s, LAMBDA c : c \notin Whitespace)

canonize(path) ==
    LET p == StripSpace(path)
        pos == Find(p, <<"[", "0", "]">>)
    IN  IF pos # 0 THEN Erase(p, pos, 3) ELSE Erase(p, 1, 0)

(***************************************************************************)
(* pathCount and mapFile                                                   *)
(***************************************************************************)
RECURSIVE pathCountFrom(_, _, _)
pathCountFrom(m, path, index) ==
    IF Count(m, path \o FormatIndex(index)) # 0
    THEN pathCountFrom(m, path, index + 1)
    ELSE index

\* the first index probed
pathCountStart == 1

pathCount(m, path) == pathCountFrom(m, path, pathCountStart)

\* A node of the parsed tree: [name, content, attrs, children].  content and
\* an attribute's value are <<>> for a null pointer and <<text>> otherwise.
TextOrDNE(opt) == IF opt = <<>> THEN valDNE ELSE opt[1]

\* the key a node is stored under: the bare path, or the path with the
\* lowest free index when the bare path is taken
nodeKey(m, path) ==
    IF Count(m, path) = 0 THEN path ELSE path \o FormatIndex(pathCount(m, path))

\* the attribute loop: one entry per attribute, written without a check
RECURSIVE mapAttrs(_, _, _, _)
mapAttrs(m, path, attrs, i) ==
    IF i > Len(attrs) THEN m
    ELSE mapAttrs(Put(m, path \o attrDelim \o attrs[i].name, TextOrDNE(attrs[i].value)),
                  path, attrs, i + 1)

\* the path of a node: the delimiter after a non-empty parent path, then the
\* node's name unless the node is the root (level 1)
nodePath(node, level, path) ==
    LET p == IF path # <<>> THEN path \o pathDelim ELSE path
    IN  IF level > 1 THEN p \o node.name ELSE p

\* st = [nodes |-> the map, keyOf |-> history: tree address -> key written]
\* addr is the node's address in the tree (child indices from the root).
RECURSIVE mapFile(_, _, _, _, _)
RECURSIVE mapChildren(_, _, _, _, _, _)
mapFile(node, level, path, st, addr) ==
    LET key == nodeKey(st.nodes, nodePath(node, level, path))
        m1  == Put(st.nodes, key, TextOrDNE(node.content))
        m2  == mapAttrs(m1, key, node.attrs, 1)
        st2 == [nodes |-> m2,
                keyOf |-> [a \in (DOMAIN st.keyOf) \cup {addr} |->
                              IF a = addr THEN key ELSE st.keyOf[a]]]
    IN  mapChildren(node.children, 1, level + 1, key, st2, addr)

mapChildren(children, i, level, path, st, addr) ==
    IF i > Len(children) THEN st
    ELSE mapChildren(children, i + 1, level, path,
                     mapFile(children[i], level, path, st, Append(addr, i)),
                     addr)


\* a load that forgets to empty the map
clear_Nothing(m) == m

\* mNodes.clear()
clear(m) == EmptyMap

\* a load that records the outcome of the latest parse only
loadError_Latest(flag, parsed) == ~parsed

\* the flag after load: set on a parse failure, never reset
loadError(flag, parsed) == IF ~parsed THEN TRUE ELSE flag

\* load: src = [parses, root] is what the XML engine makes of the source
load(m, flag, src) ==
    IF ~src.parses
    THEN [nodes |-> clear(m), error |-> loadError(flag, FALSE)]
    ELSE [nodes |-> mapFile(src.root, 1, <<>>,
                            [nodes |-> clear(m), keyOf |-> EmptyMap], <<>>).nodes,
          error |-> loadError(flag, TRUE)]

(***************************************************************************)
(* exists, convert, convertTo, get, set                                    *)
(***************************************************************************)
exists(m, path) == IF 0 = Count(m, canonize(path)) THEN FALSE ELSE TRUE

\* the integers given to set<int>
IntValues == {-12, 7}

\* the values an uninitialised int can hold
AnyInt == IntValues \cup {0}

IsDigit(c) == c \in {"0", "1", "2", "3", "4", "5", "6", "7", "8", "9"}

RECURSIVE DigitsValue(_, _)
DigitsValue(s, acc) ==
    IF s = <<>> \/ ~IsDigit(Head(s)) THEN acc
    ELSE DigitsValue(Tail(s), 10 * acc + (Code(Head(s)) - 48))

RECURSIVE SkipSpace(_)
SkipSpace(s) == IF s # <<>> /\ Head(s) \in Whitespace THEN SkipSpace(Tail(s)) ELSE s

\* convert<int>: "int rv; sstr << s; sstr >> rv; return rv".  On an empty or
\* all-blank text the extraction stores nothing and rv is returned
\* uninitialised; on text that is no number it stores 0.
convertInt(s) ==
    LET t    == SkipSpace(s)
        neg  == t # <<>> /\ Head(t) = "-"
        body == IF t # <<>> /\ Head(t) \in {"-", "+"} THEN Tail(t) ELSE t
    IN  IF t = <<>> THEN AnyInt
        ELSE IF body = <<>> \/ ~IsDigit(Head(body)) THEN {0}
        ELSE {IF neg THEN 0 - DigitsValue(body, 0) ELSE DigitsValue(body, 0)}

\* convert<std::string>
convertString(str) == str

\* convert<bool>
convertBool(str) ==
    IF str = <<"f", "a", "l", "s", "e">> THEN {FALSE}
    ELSE IF str = <<"t", "r", "u", "e">> THEN {TRUE}
    ELSE {r # 0 : r \in convertInt(str)}

\* convert<T>: the set of values the call can return
convert(T, s) ==
    CASE T = "string" -> {convertString(s)}
      [] T = "bool"   -> convertBool(s)
      [] T = "int"    -> convertInt(s)

\* convertTo<int>: operator<< of an int
convertTo(v) == IF v < 0 THEN <<"-">> \o Digits(0 - v) ELSE Digits(v)

\* get<T>, the generic template
get(m, T, path, dv) ==
    IF ~exists(m, path) THEN {dv} ELSE convert(T, m[canonize(path)])

\* a get that takes the sentinel of an empty node for a missing path
getString_SentinelAsMissing(m, path, dv) ==
    IF ~exists(m, path) \/ m[canonize(path)] = valDNE THEN dv
    ELSE m[canonize(path)]

\* get<std::string>, the specialization
getString(m, path, dv) ==
    IF ~exists(m, path) THEN dv ELSE m[canonize(path)]

\* a set that writes under the path as given
set_RawPath(m, path, v) == Put(m, path, convertTo(v))

\* set<T>, the generic template (T = int)
set(m, path, v) == Put(m, canonize(path), convertTo(v))

\* set<std::string>
setString(m, path, v) == Put(m, canonize(path), v)

\* set<bool>
setBool(m, path, bv) ==
    Put(m, canonize(path),
        IF bv THEN <<"t", "r", "u", "e">> ELSE <<"f", "a", "l", "s", "e">>)

(***************************************************************************)
(* childrenOf and dump                                                     *)
(***************************************************************************)
is_attribute(str) == Find(str, attrDelim) # 0

\* std::string::substr(0, n)
Substr0(s, n) == SubSeq(s, 1, Min(n, Len(s)))

childrenOf(m, path) ==
    LET p == canonize(path)
    IN  SelectSeq(SortedKeys(m),
                  LAMBDA k : /\ Substr0(k, Len(p)) # k
                             /\ Substr0(k, Len(p)) = p
                             /\ ~is_attribute(k))

\* a dump that ends no line
dumpLine_NoEndl(k, v) == <<"[">> \o k \o <<"]", " ", "=", " ">> \o v

\* one "[key] = value" and std::endl
dumpLine(k, v) == <<"[">> \o k \o <<"]", " ", "=", " ">> \o v \o <<"\n">>

RECURSIVE dumpFrom(_, _, _)
dumpFrom(m, keys, i) ==
    IF i > Len(keys) THEN <<>>
    ELSE dumpLine(keys[i], m[keys[i]]) \o dumpFrom(m, keys, i + 1)

dump(m) == dumpFrom(m, SortedKeys(m), 1)

(***************************************************************************)
(* Inputs: documents, paths and values.                                    *)
(***************************************************************************)
Node(name, content, attrs, children) ==
    [name |-> name, content |-> content, attrs |-> attrs, children |-> children]

Attr(name, value) == [name |-> name, value |-> value]

Txt(c) == <<<<c>>>>

ItemText == <<"a", "b", "c", "d", "e">>

\* <r><P t="x"><I n="a">a</I><I n="b">b</I>...</P></r> with n items I
SiblingDoc(n) ==
    Node(<<"r">>, <<>>, <<>>,
         << Node(<<"P">>, <<>>, <<Attr(<<"t">>, Txt("x"))>>,
                 [j \in 1..n |->
                    Node(<<"I">>, Txt(ItemText[j]),
                         <<Attr(<<"n">>, Txt(ItemText[j]))>>, <<>>)]) >>)

\* <r><A>x<B>a</B></A><A n="v"><B>b</B><B>c</B></A><AB>d</AB></r>
NestedDoc ==
    Node(<<"r">>, <<>>, <<>>,
         << Node(<<"A">>, Txt("x"), <<>>, <<Node(<<"B">>, Txt("a"), <<>>, <<>>)>>),
            Node(<<"A">>, <<>>, <<Attr(<<"n">>, Txt("v"))>>,
                 << Node(<<"B">>, Txt("b"), <<>>, <<>>),
                    Node(<<"B">>, Txt("c"), <<>>, <<>>) >>),
            Node(<<"A", "B">>, Txt("d"), <<>>, <<>>) >>)

\* <r><A><B>a</B></A><A.B>b</A.B></r> : an element name may hold a '.'
DottedDoc ==
    Node(<<"r">>, <<>>, <<>>,
         << Node(<<"A">>, <<>>, <<>>, <<Node(<<"B">>, Txt("a"), <<>>, <<>>)>>),
            Node(<<"A", ".", "B">>, Txt("b"), <<>>, <<>>) >>)

\* <r v="1">r<A>a(newline)b</A></r> : a root with content and an attribute,
\* and a content of two lines
RootDoc ==
    Node(<<"r">>, Txt("r"), <<Attr(<<"v">>, Txt("1"))>>,
         << Node(<<"A">>, <<<<"a", "\n", "b">>>>, <<>>, <<>>) >>)

NullNode == Node(<<>>, <<>>, <<>>, <<>>)

Parsed(root) == [parses |-> TRUE, root |-> root]

\* a source the XML engine cannot parse: ParseFile/ParseString return null
Unparsable == [parses |-> FALSE, root |-> NullNode]

NoDoc == Unparsable

Sources ==
    {Parsed(SiblingDoc(n)) : n \in 2..MaxSiblings}
        \cup {Parsed(NestedDoc), Parsed(DottedDoc), Parsed(RootDoc), Unparsable}

\* the positions after which "[0]" can be written: the end of a node segment
\* that carries no index
SegEnds(k) ==
    {i \in 1..Len(k) :
        /\ k[i] \notin {"]", ".", ":"}
        /\ i = Len(k) \/ k[i + 1] \in {".", ":"}
        /\ \A j \in 1..i : k[j] # ":"}

RECURSIVE InsertZeros(_, _, _)
InsertZeros(k, S, i) ==
    IF i > Len(k) THEN <<>>
    ELSE <<k[i]>> \o (IF i \in S THEN <<"[", "0", "]">> ELSE <<>>)
            \o InsertZeros(k, S, i + 1)

\* the paths made from key k by writing "[0]" after one or more of its
\* unindexed node segments
ZeroInsertions(k) == {InsertZeros(k, S, 1) : S \in (SUBSET SegEnds(k)) \ {{}}}

\* paths given to set, and to get<bool> and get<int>
SetPaths ==
    { <<" ", "A", "[", "0", "]">>,
      <<"A", "[", "0", "]", ".", "B", "[", "0", "]">>,
      <<"N", ":", "x">> }

\* further paths given to the readers
ReadPaths == SetPaths \cup { <<>>, <<"P">>, <<"A">>, <<"A", "[", "1", "]">> }

TextValues == { <<"v">>, <<"a", "\n", "b">> }
TextDefaults == { <<"d">>, <<"v">> }
IntDefaults == {0, 7}

\* get<std::string>'s and exists' paths in the current state
KeyPaths == ReadPaths \cup UNION {ZeroInsertions(k) : k \in DOMAIN mNodes}

None == [op |-> "none"]


\* the texts given to canonize in SpecCanon
CanonAlphabet == {"[", "0", "]", " ", "A"}
CanonInputs == ReadPaths \cup UNION {[1..n -> CanonAlphabet] : n \in 0..MaxPathLen}

(***************************************************************************)
(* The store: one action per call.  load and set return nothing; a reader  *)
(* (get, exists, childrenOf, dump) leaves its result in ret until the      *)
(* caller goes on.                                                         *)
(***************************************************************************)
\* TXmlConfig() : the no-op constructor
Init ==
    /\ mNodes = EmptyMap
    /\ mErrorParsing = FALSE
    /\ xmldoc = NoDoc
    /\ nsets = 0
    /\ call = None
    /\ ret = None

Load(src, asString) ==
    /\ ret = None
    /\ mNodes' = load(mNodes, mErrorParsing, src).nodes
    /\ mErrorParsing' = load(mNodes, mErrorParsing, src).error
    /\ xmldoc' = src
    /\ nsets' = 0
    /\ call' = [op |-> "load", src |-> src,
                gone |-> (DOMAIN mNodes) \ (DOMAIN mNodes') # {}]
    /\ UNCHANGED ret

Set(T, path, v) ==
    /\ ret = None
    /\ nsets < MaxSets
    /\ mNodes' = CASE T = "string" -> setString(mNodes, path, v)
                   [] T = "bool"   -> setBool(mNodes, path, v)
                   [] T = "int"    -> set(mNodes, path, v)
    /\ nsets' = nsets + 1
    /\ call' = [op |-> "set", type |-> T, path |-> path, v |-> v]
    /\ UNCHANGED <<mErrorParsing, xmldoc, ret>>

Get(T, path, dv) ==
    /\ ret = None
    /\ \E r \in (IF T = "string" THEN {getString(mNodes, path, dv)}
                 ELSE get(mNodes, T, path, dv)) :
          ret' = [op |-> "get", type |-> T, path |-> path, dv |-> dv, val |-> r]
    /\ UNCHANGED <<mNodes, mErrorParsing, xmldoc, nsets, call>>

Exists(path) ==
    /\ ret = None
    /\ ret' = [op |-> "exists", path |-> path, val |-> exists(mNodes, path)]
    /\ UNCHANGED <<mNodes, mErrorParsing, xmldoc, nsets, call>>

ChildrenOf(path) ==
    /\ ret = None
    /\ ret' = [op |-> "childrenOf", path |-> path, val |-> childrenOf(mNodes, path)]
    /\ UNCHANGED <<mNodes, mErrorParsing, xmldoc, nsets, call>>

Dump ==
    /\ ret = None
    /\ ret' = [op |-> "dump", val |-> dump(mNodes)]
    /\ UNCHANGED <<mNodes, mErrorParsing, xmldoc, nsets, call>>

\* the caller takes the result and goes on
Continue ==
    /\ ret # None
    /\ ret' = None
    /\ UNCHANGED <<mNodes, mErrorParsing, xmldoc, nsets, call>>

Next ==
    \/ \E src \in Sources, asString \in BOOLEAN : Load(src, asString)
    \/ \E path \in SetPaths, v \in TextValues : Set("string", path, v)
    \/ \E path \in SetPaths, v \in BOOLEAN : Set("bool", path, v)
    \/ \E path \in SetPaths, v \in IntValues : Set("int", path, v)
    \/ \E path \in KeyPaths, dv \in TextDefaults : Get("string", path, dv)
    \/ \E path \in SetPaths, dv \in BOOLEAN : Get("bool", path, dv)
    \/ \E path \in SetPaths, dv \in IntDefaults : Get("int", path, dv)
    \/ \E path \in KeyPaths : Exists(path)
    \/ \E path \in ReadPaths : ChildrenOf(path)
    \/ Dump
    \/ Continue

Spec == Init /\ [][Next]_vars

(***************************************************************************)
(* canonize alone, on every text of the bounded alphabet.                  *)
(***************************************************************************)
InitCanon ==
    /\ mNodes = EmptyMap
    /\ mErrorParsing = FALSE
    /\ xmldoc = NoDoc
    /\ nsets = 0
    /\ call = None
    /\ ret \in {[op |-> "path", path |-> p] : p \in CanonInputs}

Canonize ==
    /\ ret.op = "path"
    /\ ret' = [op |-> "canonize", path |-> ret.path, val |-> canonize(ret.path)]
    /\ UNCHANGED <<mNodes, mErrorParsing, xmldoc, nsets, call>>

NextCanon == Canonize

SpecCanon == InitCanon /\ [][NextCanon]_vars


(***************************************************************************)
(* The document tree as the claims speak of it.                            *)
(***************************************************************************)
\* the node at an address
RECURSIVE NodeAt(_, _)
NodeAt(node, addr) ==
    IF addr = <<>> THEN node ELSE NodeAt(node.children[Head(addr)], Tail(addr))

\* the addresses of a tree's nodes, the root's <<>> among them
RECURSIVE Addrs(_)
Addrs(node) ==
    {<<>>} \cup UNION {{<<i>> \o a : a \in Addrs(node.children[i])} :
                          i \in 1..Len(node.children)}

Front(addr) == SubSeq(addr, 1, Len(addr) - 1)

\* the flattening of a document alone: mapFile from its root into an empty map
Flat(src) ==
    mapFile(src.root, 1, <<>>, [nodes |-> EmptyMap, keyOf |-> EmptyMap], <<>>)

\* a successful load is the latest call that changed the map
JustLoaded == call.op = "load" /\ call.src.parses

\* the number of earlier siblings of the same name
EarlierSame(root, addr) ==
    LET sibs == NodeAt(root, Front(addr)).children
        i    == addr[Len(addr)]
    IN  Cardinality({j \in 1..(i - 1) : sibs[j].name = sibs[i].name})

\* the key the spec gives a non-root node: P.N for the first child named N of
\* the node at P (N at top level), P.N[j] for the j-th later one
RECURSIVE ExpectedKey(_, _)
ExpectedKey(root, addr) ==
    LET name == NodeAt(root, addr).name
        base == IF Len(addr) = 1 THEN name
                ELSE ExpectedKey(root, Front(addr)) \o pathDelim \o name
        j    == EarlierSame(root, addr)
    IN  IF j = 0 THEN base ELSE base \o FormatIndex(j)

\* the lines of a text: the pieces each line break ends, and what follows the
\* last line break if anything does
Lines(text) ==
    LET brk      == {i \in 1..Len(text) : text[i] = "\n"}
        n        == Cardinality(brk)
        Brk(k)   == IF k = 0 THEN 0
                    ELSE CHOOSE i \in brk : Cardinality({j \in brk : j < i}) = k - 1
        rest     == SubSeq(text, Brk(n) + 1, Len(text))
    IN  [k \in 1..n |-> SubSeq(text, Brk(k - 1) + 1, Brk(k) - 1)]
            \o (IF rest = <<>> THEN <<>> ELSE <<rest>>)

HasLineBreak(text) == \E i \in 1..Len(text) : text[i] = "\n"

(***************************************************************************)
(* C1  Flattening stores every non-root node under its own key: the first   *)
(* child named N of the node at P under P.N (N at top level), the j-th      *)
(* later one under P.N[j], each key holding that node's own content.        *)
(***************************************************************************)
C1_EveryNodeUnderItsOwnKey ==
    JustLoaded =>
        \A a \in Addrs(xmldoc.root) \ {<<>>} :
            /\ ExpectedKey(xmldoc.root, a) \in DOMAIN mNodes
            /\ mNodes[ExpectedKey(xmldoc.root, a)]
                  = TextOrDNE(NodeAt(xmldoc.root, a).content)

(***************************************************************************)
(* C2  exists(p) is true exactly when canonize(p) is a key; get<string>     *)
(* returns the default when it is not and the stored text, the sentinel     *)
(* included, when it is; get never changes the map.                         *)
(***************************************************************************)
\* C2, the results: what exists and get<string> have returned
C2_Returned ==
    /\ ret.op = "exists" => ret.val = (canonize(ret.path) \in DOMAIN mNodes)
    /\ (ret.op = "get" /\ ret.type = "string") =>
          ret.val = IF canonize(ret.path) \in DOMAIN mNodes
                    THEN mNodes[canonize(ret.path)] ELSE ret.dv

\* C2: the results are as stated in every state, and a get step leaves the
\* map as it was
C2_ExistsAndGet ==
    /\ []C2_Returned
    /\ [][(ret'.op = "get" /\ ret' # ret) => mNodes' = mNodes]_vars

\* C2: a get<string> has returned the stored sentinel, not the default
C2_Witness ==
    /\ ret.op = "get" /\ ret.type = "string"
    /\ canonize(ret.path) \in DOMAIN mNodes
    /\ ret.val = valDNE /\ ret.dv # valDNE

(***************************************************************************)
(* C3  set<T>(p, v) and then get<T>(p, d) returns v, for text, boolean and   *)
(* integer, whatever the path and the default.                              *)
(***************************************************************************)
C3_SetThenGet ==
    (/\ ret.op = "get" /\ call.op = "set"
     /\ call.type = ret.type /\ call.path = ret.path)
        => ret.val = call.v

\* C3: get<int> right after set<int> on a path with two "[0]"
C3_Witness ==
    /\ ret.op = "get" /\ call.op = "set"
    /\ call.type = "int" /\ ret.type = "int"
    /\ call.path = <<"A", "[", "0", "]", ".", "B", "[", "0", "]">>
    /\ ret.path = call.path
    /\ call.v = -12 /\ ret.dv = 7 /\ ret.val = -12

(***************************************************************************)
(* C4  A path made from a flattened key k by writing "[0]" after one or more *)
(* of its unindexed node segments exists and reads as k does.               *)
(***************************************************************************)
C4_ZeroIndexAnywhere ==
    (JustLoaded /\ ret.op \in {"exists", "get"}) =>
        \A k \in DOMAIN mNodes :
            ret.path \in ZeroInsertions(k) =>
                /\ ret.op = "exists" => ret.val = TRUE
                /\ (ret.op = "get" /\ ret.type = "string") => ret.val = mNodes[k]

(***************************************************************************)
(* C5  canonize is idempotent: canonize(canonize(p)) = canonize(p).          *)
(***************************************************************************)
C5_CanonizeIdempotent ==
    ret.op = "canonize" => canonize(ret.val) = ret.val

(***************************************************************************)
(* C6  load replaces the map: when it returns the map is the flattening of  *)
(* the source alone, or empty when the source does not parse, and then no   *)
(* path exists and get returns the default.                                 *)
(***************************************************************************)
C6_LoadReplaces ==
    call.op = "load" =>
        /\ mNodes = IF call.src.parses THEN Flat(call.src).nodes ELSE EmptyMap
        /\ ~call.src.parses =>
              /\ ret.op = "exists" => ret.val = FALSE
              /\ ret.op = "get" => ret.val = ret.dv

\* C6: a successful load has dropped an entry the map held before it
C6_Witness ==
    /\ call.op = "load" /\ call.src.parses /\ call.gone
    /\ <<"N", ":", "x">> \notin DOMAIN mNodes

(***************************************************************************)
(* C7  The parse-error flag is false on a fresh store, true after a load    *)
(* that fails to parse, and once true it stays true through every call, a   *)
(* later successful load included.                                          *)
(***************************************************************************)
C7_StickyErrorFlag ==
    /\ ~mErrorParsing
    /\ [][/\ mErrorParsing => mErrorParsing'
          /\ (call'.op = "load" /\ ~call'.src.parses) => mErrorParsing']_vars

\* C7: the flag is still set after a later load that parsed
C7_Witness == mErrorParsing /\ JustLoaded

(***************************************************************************)
(* C8  After a successful load the keys are exactly the paths of the        *)
(* non-root nodes and of their attributes: the root contributes no entry,   *)
(* neither "" nor any ":attr".                                              *)
(***************************************************************************)
C8_RootNotInMap ==
    JustLoaded =>
        LET keyOf == Flat(xmldoc).keyOf
            nodes == Addrs(xmldoc.root) \ {<<>>}
        IN  /\ DOMAIN mNodes =
                  {keyOf[a] : a \in nodes} \cup
                  UNION {{keyOf[a] \o attrDelim \o NodeAt(xmldoc.root, a).attrs[i].name :
                             i \in 1..Len(NodeAt(xmldoc.root, a).attrs)} : a \in nodes}
            /\ <<>> \notin DOMAIN mNodes
            /\ \A k \in DOMAIN mNodes : k[1] # ":"

(***************************************************************************)
(* C9  childrenOf(P), P the key of a node, returns exactly the keys of that *)
(* node's children, in key order.                                           *)
(***************************************************************************)
C9_ChildrenOnly ==
    (JustLoaded /\ ret.op = "childrenOf") =>
        LET keyOf == Flat(xmldoc).keyOf
        IN  \A a \in Addrs(xmldoc.root) \ {<<>>} :
                keyOf[a] = ret.path =>
                    /\ {ret.val[i] : i \in 1..Len(ret.val)} =
                          {keyOf[Append(a, i)] :
                              i \in 1..Len(NodeAt(xmldoc.root, a).children)}
                    /\ \A i, j \in 1..Len(ret.val) :
                          i < j => StrLess(ret.val[i], ret.val[j])

(***************************************************************************)
(* C10  dump() has exactly one line per entry, the i-th line being          *)
(* "[k] = v" for the i-th entry in key order.                               *)
(***************************************************************************)
\* C10: one line per entry in the text dump has returned
OneLinePerEntry ==
    LET lines == Lines(ret.val)
    IN  /\ Len(lines) = Cardinality(DOMAIN mNodes)
        /\ \A k \in DOMAIN mNodes :
              LET i == 1 + Cardinality({x \in DOMAIN mNodes : StrLess(x, k)})
              IN  /\ i <= Len(lines)
                  /\ lines[i] = <<"[">> \o k \o <<"]", " ", "=", " ">> \o mNodes[k]

\* C10 as claimed: in every state
C10_DumpOneLinePerEntry == ret.op = "dump" => OneLinePerEntry

\* C10 as amended: dump() has one line per entry, the i-th being "[k] = v"
\* for the i-th entry in key order, when no stored value holds a line break
C10_DumpOneLinePerEntryNoBreak ==
    (ret.op = "dump" /\ \A k \in DOMAIN mNodes : ~HasLineBreak(mNodes[k]))
        => OneLinePerEntry

\* C10: a dump of three or more entries, none with a line break, after a
\* set<string>
C10_Witness ==
    /\ ret.op = "dump" /\ call.op = "set" /\ call.type = "string"
    /\ Cardinality(DOMAIN mNodes) >= 3
    /\ \A k \in DOMAIN mNodes : ~HasLineBreak(mNodes[k])

=============================================================================
